---- MODULE Spec2Model ----
(***************************************************************************)
(* Model of the command/response orchestrator of the deaddrop backend:     *)
(* the command-submission boundary (views.start_command), the dispatch     *)
(* unit (tasks.execute_command), the receive unit (tasks.receive_messages) *)
(* and the durable stores they write (models.File, models.Credential,      *)
(* django_celery_results' TaskResult).                                     *)
(***************************************************************************)
EXTENDS Integers, Sequences, FiniteSets, TLC

\* ------------------------------------------------------------------ bounds
MaxTasks == 2      \* units ever published (TaskResult rows)
MaxMsgs  == 2      \* messages delivered by the transport over a whole run
MaxArts  == 3      \* artifacts carried by those messages
MaxSubmits == 1    \* submissions accepted at the submission boundary
MaxKeys  == 3      \* entries of one node of a document given to the preprocessor
MaxPasses == 2     \* preprocess_dict calls on one document

\* ------------------------------------------------------------ value domains
None == 0                          \* Python None in an id-valued position
UserIds == {1}                     \* auth_user primary keys
EndpointIds == {1}                 \* backend_endpoint primary keys
ArtIds == {1, 2}                   \* agent-minted file_id / credential_id

NoArgs == {}
CountInt == {[key |-> "count", type |-> "integer", repr |-> "5"]}
CountStr == {[key |-> "count", type |-> "string", repr |-> "five"]}
ArgsSet == {NoArgs, CountInt, CountStr}      \* cmd_args submitted by operators
CmdNames == {"whoami", "repeat", "bogus"}    \* cmd_name submitted by operators

\* ------------------------------------------------------------ JSON documents
\* A JSON value as json.load returns it. A dict is the sequence of its entries
\* in insertion order (Python dicts are ordered); every value carries all
\* fields so that any two values can be compared.
Str(x) == [kind |-> "str", s |-> x, names |-> <<>>, d |-> <<>>, l |-> <<>>]
Bool(x) == [kind |-> "bool", s |-> x, names |-> <<>>, d |-> <<>>, l |-> <<>>]
Names(x) == [kind |-> "names", s |-> "", names |-> x, d |-> <<>>, l |-> <<>>]
Dict(x) == [kind |-> "dict", s |-> "", names |-> <<>>, d |-> x, l |-> <<>>]
List(x) == [kind |-> "list", s |-> "", names |-> <<>>, d |-> <<>>, l |-> x]
Entry(k, v) == [key |-> k, val |-> v]

Keys(doc) == {doc[i].key : i \in 1..Len(doc)}
IndexOf(doc, k) == CHOOSE i \in 1..Len(doc) : doc[i].key = k
\* doc[k]
Get(doc, k) == doc[IndexOf(doc, k)].val
\* doc[k] = v: an existing key keeps its position, a new key goes last
Put(doc, k, v) ==
  IF k \in Keys(doc) THEN [doc EXCEPT ![IndexOf(doc, k)].val = v]
  ELSE Append(doc, Entry(k, v))
\* doc.pop(k)
Pop(doc, k) == SelectSeq(doc, LAMBDA e : e.key # k)

RECURSIVE Update(_, _)
\* doc.update(other)
Update(doc, other) ==
  IF other = <<>> THEN doc
  ELSE Update(Put(doc, Head(other).key, Head(other).val), Tail(other))

\* dict equality: the same keys with the same values, whatever the order
SameDict(a, b) ==
  /\ Keys(a) = Keys(b)
  /\ \A k \in Keys(a) : Get(a, k) = Get(b, k)

\* commands.json of the agent package the orchestrator runs against
CommandMetadata ==
  << << Entry("name", Str("whoami")),
        Entry("argument_schema", Dict(<<
            Entry("type", Str("object")),
            Entry("properties", Dict(<<>>)),
            Entry("required", Names(<<>>)),
            Entry("additionalProperties", Bool("false")) >>)) >>,
     << Entry("name", Str("repeat")),
        Entry("argument_schema", Dict(<<
            Entry("type", Str("object")),
            Entry("properties", Dict(<<
                Entry("count", Dict(<< Entry("type", Str("integer")) >>)) >>)),
            Entry("required", Names(<<"count">>)) >>)) >> >>

\* ------------------------------------------------------------- preprocessor
\* django.conf.settings: the attributes a settings_val directive can name
settings == ("SERVER_PUBLIC_KEY" :> "") @@ ("AGENT_PACKAGE_DIR" :> "packages/agents")

\* re.match(r'_preprocess_(.*)', key).group(1), for the directive keys that
\* documents carry; every other key does not match
Directives ==
  ("_preprocess_create_id" :> "create_id")
    @@ ("_preprocess_settings_val" :> "settings_val")
    @@ ("_preprocess_form_default" :> "form_default")

\* ACTIONS, the registry of preprocessor actions
Actions == {"create_id", "settings_val"}

\* str(uuid.uuid4()): the n-th identifier drawn from the generator
Uuid(n) == [kind |-> "uuid", s |-> ToString(n), names |-> <<>>, d |-> <<>>, l |-> <<>>]

\* The state of one preprocess_dict call: `input` is the dict being rewritten
\* in place, `detached` the keys whose value is no longer the object the
\* snapshot holds (overwritten or popped), `uuid` the identifiers drawn so
\* far, `raised` the exception that ended the call ("" while it runs)
Running(input, uuid) == [input |-> input, detached |-> {}, uuid |-> uuid, raised |-> ""]
Raise(st, exc) == [st EXCEPT !.raised = exc]

\* preprocess_create_id with the identifier drawn once, when the module is
\* loaded, instead of on every call
preprocess_create_id_Cached(st, value) ==
  [st EXCEPT !.input = Put(Put(st.input, "default", Uuid(1)), "readOnly", Bool("true")),
             !.detached = @ \cup {"default", "readOnly"}]

\* preprocess_create_id(input, _value)
preprocess_create_id(st, value) ==
  [st EXCEPT !.input = Put(Put(st.input, "default", Uuid(st.uuid + 1)),
                           "readOnly", Bool("true")),
             !.detached = @ \cup {"default", "readOnly"},
             !.uuid = @ + 1]

\* preprocess_settings_val(input, value): getattr(settings, value)
preprocess_settings_val(st, value) ==
  IF value.kind # "str" THEN Raise(st, "TypeError")
  ELSE IF value.s \notin DOMAIN settings THEN Raise(st, "AttributeError")
  ELSE [st EXCEPT !.input = Put(Put(st.input, "default", Str(settings[value.s])),
                                "readOnly", Bool("true")),
                  !.detached = @ \cup {"default", "readOnly"}]

\* preprocess_router(input, action, value)
preprocess_router(st, action, value) ==
  IF action \notin Actions THEN Raise(st, "RuntimeError")
  ELSE IF action = "create_id" THEN preprocess_create_id(st, value)
  ELSE preprocess_settings_val(st, value)

NullType == << Entry("type", Str("null")) >>

RECURSIVE MergeAlternatives(_, _)
\* for d in data: if d != {"type": "null"}: input.update(d)
MergeAlternatives(st, data) ==
  IF data = <<>> THEN st
  ELSE MergeAlternatives(
         IF SameDict(Head(data), NullType) THEN st
         ELSE [st EXCEPT !.input = Update(@, Head(data)),
                         !.detached = @ \cup Keys(Head(data))],
         Tail(data))

\* preprocess_anyof(input); "anyOf" holds a list of dicts
preprocess_anyof(st) ==
  IF "anyOf" \notin Keys(st.input) THEN Raise(st, "AssertionError")
  ELSE MergeAlternatives([st EXCEPT !.input = Pop(@, "anyOf"),
                                    !.detached = @ \cup {"anyOf"}],
                         Get(st.input, "anyOf").l)

\* preprocess_array(input)
preprocess_array(st) ==
  IF Get(st.input, "type") # Str("array") THEN Raise(st, "AssertionError")
  ELSE IF "items" \notin Keys(st.input) THEN Raise(st, "AssertionError")
  ELSE [st EXCEPT !.input = Put(Pop(@, "items"), "type", Str("string")),
                  !.detached = @ \cup {"items", "type"}]

RECURSIVE preprocess_dict(_, _)
RECURSIVE Visit(_, _, _)
RECURSIVE Step(_, _, _)

\* one iteration of the loop of preprocess_dict, for the snapshot's (key, value)
Step(key, value, st) ==
  LET nested == preprocess_dict(value.d, st.uuid)
      \* the recursive call rewrites the value object in place; input sees it
      \* while input[key] is still that object
      s1 == IF value.kind # "dict" THEN st
            ELSE [st EXCEPT !.input = IF key \in Keys(@) /\ key \notin st.detached
                                      THEN Put(@, key, Dict(nested.input)) ELSE @,
                            !.uuid = nested.uuid,
                            !.raised = nested.raised]
      s2 == IF s1.raised = "" /\ key = "anyOf" THEN preprocess_anyof(s1) ELSE s1
      s3 == IF s2.raised = "" /\ key = "type" /\ value = Str("array")
            THEN preprocess_array(s2) ELSE s2
      s4 == IF s3.raised = "" /\ key \in DOMAIN Directives
            THEN preprocess_router([s3 EXCEPT !.input = Pop(@, key),
                                              !.detached = @ \cup {key}],
                                   Directives[key], value)
            ELSE s3
  IN s4

\* for key, value in tuple(input.items()): ...
Visit(snapshot, st, i) ==
  IF st.raised # "" \/ i > Len(snapshot) THEN st
  ELSE Visit(snapshot, Step(snapshot[i].key, snapshot[i].val, st), i + 1)

\* preprocess_dict(input): the dict as the call leaves it, the identifiers
\* drawn, and the exception raised, if any
preprocess_dict(input, uuid) == Visit(input, Running(input, uuid), 1)

RECURSIVE preprocess_list(_, _, _)
\* preprocess_list(input): preprocess_dict on every item, in order (from item i)
preprocess_list(input, uuid, i) ==
  IF i > Len(input) THEN [input |-> input, uuid |-> uuid, raised |-> ""]
  ELSE LET r == preprocess_dict(input[i], uuid)
       IN IF r.raised # ""
          THEN [input |-> [input EXCEPT ![i] = r.input], uuid |-> r.uuid,
                raised |-> r.raised]
          ELSE preprocess_list([input EXCEPT ![i] = r.input], r.uuid, i + 1)

\* ---------------------------------------------------------------- validator
\* One jsonschema ValidationError: relative_path, and what error.message says
\* (the failing keyword, its value in the schema, the offending instance)
Error(path, validator, value, instance) ==
  [path |-> path, validator |-> validator, value |-> value, instance |-> instance]

\* error.message
Message(error) ==
  [validator |-> error.validator, value |-> error.value, instance |-> error.instance]

\* the draft 2020-12 type check; cmd_args values are integers, strings, null
\* or (empty) arrays
is_type(instance_type, type) ==
  instance_type = type \/ (type = "number" /\ instance_type = "integer")

RECURSIVE ArgErrors(_, _, _)
\* iter_errors of one argument against its property's subschema: the keywords
\* in the subschema's order (from keyword i). Object keywords do not apply to
\* these instances, "items" has no element to fail on, annotations never fail.
ArgErrors(subschema, arg, i) ==
  IF i > Len(subschema) THEN <<>>
  ELSE LET key == subschema[i].key
           val == subschema[i].val
           own == IF key = "type" /\ val.kind = "str" /\ ~ is_type(arg.type, val.s)
                  THEN << Error(<<arg.key>>, "type", val.s, arg.repr) >>
                  ELSE IF key = "anyOf" /\ val.kind = "list"
                          /\ \A j \in 1..Len(val.l) : ArgErrors(val.l[j], arg, 1) # <<>>
                  THEN << Error(<<arg.key>>, "anyOf", "", arg.repr) >>
                  ELSE <<>>
       IN own \o ArgErrors(subschema, arg, i + 1)

RECURSIVE PropertyErrors(_, _, _)
\* the "properties" keyword: every property of the schema that cmd_args has,
\* in the schema's order, validated with the property name as path
PropertyErrors(properties, args, i) ==
  IF i > Len(properties) THEN <<>>
  ELSE LET p == properties[i]
           own == IF \E a \in args : a.key = p.key
                  THEN ArgErrors(p.val.d, CHOOSE a \in args : a.key = p.key, 1)
                  ELSE <<>>
       IN own \o PropertyErrors(properties, args, i + 1)

RECURSIVE RequiredErrors(_, _, _)
\* the "required" keyword: one error, at the root, per missing property
RequiredErrors(names, args, i) ==
  IF i > Len(names) THEN <<>>
  ELSE (IF \E a \in args : a.key = names[i] THEN <<>>
        ELSE << Error(<<>>, "required", names[i], "cmd_args") >>)
       \o RequiredErrors(names, args, i + 1)

RECURSIVE RootErrors(_, _, _)
\* the keywords of an argument_schema applied to cmd_args, in the schema's order
RootErrors(schema, args, i) ==
  IF i > Len(schema) THEN <<>>
  ELSE LET key == schema[i].key
           val == schema[i].val
           properties == IF "properties" \in Keys(schema)
                         THEN Get(schema, "properties").d ELSE <<>>
           own == IF key = "type" /\ val.kind = "str" /\ val.s # "object"
                  THEN << Error(<<>>, "type", val.s, "cmd_args") >>
                  ELSE IF key = "properties" THEN PropertyErrors(val.d, args, 1)
                  ELSE IF key = "required" THEN RequiredErrors(val.names, args, 1)
                  ELSE IF key = "additionalProperties" /\ val = Bool("false")
                          /\ \E a \in args : a.key \notin Keys(properties)
                  THEN << Error(<<>>, "additionalProperties", "", "cmd_args") >>
                  ELSE <<>>
       IN own \o RootErrors(schema, args, i + 1)

\* jsonschema.Draft202012Validator(schema).iter_errors(args), as a sequence
iter_errors(schema, args) == RootErrors(schema, args, 1)

\* jsonschema.Draft202012Validator(schema).is_valid(args)
is_valid(schema, args) == iter_errors(schema, args) = <<>>

\* ---------------------------------------------------- the ValidationError report
\* The dict start_command raises: one bucket per key; a bucket is either a
\* list of messages (kind "list") or a single message (kind "str", one message)
Bucket(key, kind, msgs) == [key |-> key, kind |-> kind, msgs |-> msgs]
HasBucket(errors, key) == \E b \in errors : b.key = key
BucketOf(errors, key) == CHOOSE b \in errors : b.key = key
\* errors[key] = value
Assign(errors, key, kind, msgs) ==
  {b \in errors : b.key # key} \cup {Bucket(key, kind, msgs)}

RECURSIVE BuildErrors(_, _, _)
\* for error in validator.iter_errors(cmd_args): ... (from error i); `raised`
\* is the exception that ends the loop, if one does
BuildErrors(errs, st, i) ==
  IF st.raised # "" \/ i > Len(errs) THEN st
  ELSE LET error == errs[i]
           global == BucketOf(st.errors, "global")
       IN BuildErrors(errs,
            IF error.path = <<>>
            THEN IF global.kind = "list"
                 THEN [st EXCEPT !.errors = Assign(@, "global", "list",
                                                   Append(global.msgs, Message(error)))]
                 ELSE [st EXCEPT !.raised = "AttributeError"]   \* str has no append
            ELSE [st EXCEPT !.errors = Assign(@, error.path[Len(error.path)], "str",
                                              << Message(error) >>)],
            i + 1)

\* --------------------------------------------------------- received messages
ArtSeqs(n) == UNION {[1..k -> ArtIds] : k \in 0..n}

\* DeadDropMessage as returned by the transport; only a CommandResponsePayload
\* carries files and credentials
Messages(n) ==
  {[type |-> "CMD_RESPONSE", files |-> f, credentials |-> c] :
       <<f, c>> \in {fc \in ArtSeqs(n) \X ArtSeqs(n) : Len(fc[1]) + Len(fc[2]) <= n}}
  \cup {[type |-> "LOG_MESSAGE", files |-> <<>>, credentials |-> <<>>]}

RECURSIVE Items(_)
\* The order in which receive_messages visits artifacts: message by message,
\* files before credentials, payloads other than command responses skipped
Items(msgs) ==
  IF msgs = <<>> THEN <<>>
  ELSE LET m == Head(msgs)
           own == IF m.type = "CMD_RESPONSE"
                  THEN [i \in 1..Len(m.files) |-> [kind |-> "file", id |-> m.files[i]]]
                       \o [i \in 1..Len(m.credentials) |->
                              [kind |-> "credential", id |-> m.credentials[i]]]
                  ELSE <<>>
       IN own \o Items(Tail(msgs))

\* what one transport receive call may return: at most m messages carrying at
\* most n artifacts between them
Batches(m, n) ==
  {b \in UNION {[1..k -> Messages(n)] : k \in 0..m} : Len(Items(b)) <= n}

\* ----------------------------------------------------------------- state
VARIABLES
  users,        \* ids of existing auth_user rows
  endpoints,    \* ids of existing Endpoint rows
  tasks,        \* published units: Celery request + TaskResult row, by task id
  sent,         \* messages handed to messaging.send_message, in order
  files,        \* rows of the File table, in insertion order
  credentials,  \* rows of the Credential table, in insertion order
  media,        \* MEDIA_ROOT/files/<file_id>.bin: which unit wrote it last
  warnings,     \* logger.warning records of receive_messages
  delivered,    \* messages and artifacts the transport has delivered so far
  commands_json, \* commands.json in the agent's package directory
  request,      \* validated_data of the last start_command call
  response,     \* what that call raised or returned
  form,         \* response of the last get_command_metadata request
  document,     \* a document as loaded, before any preprocessing
  input,        \* the same dict object while preprocess_dict rewrites it
  returned,     \* what the last preprocess_dict call raised or returned
  previous,     \* what the preprocess_dict call before that one raised or returned
  passes,       \* preprocess_dict calls made on the document
  uuid4         \* identifiers drawn from uuid.uuid4() so far

orchestrator == <<users, endpoints, tasks, sent, files, credentials, media,
                  warnings, delivered>>
boundary == <<commands_json, request, response, form>>
transformer == <<document, input, returned, previous, passes, uuid4>>

vars == <<users, endpoints, tasks, sent, files, credentials, media, warnings,
          delivered, commands_json, request, response, form, document, input,
          returned, previous, passes, uuid4>>

NoData == [cmd_name |-> "", cmd_args |-> {}]
NoResult == [exc |-> "", ret |-> "", msgs |-> <<>>]
NoOutcome == [raised |-> "", errors |-> {}, task_id |-> None]
NoForm == [raised |-> "", body |-> List(<<>>)]
NoReturn == [raised |-> "", doc |-> <<>>, of |-> ""]

\* Agent.get_command_metadata: every call deserialises commands.json afresh
get_command_metadata == commands_json

\* commands = {cmd['name']: cmd for cmd in command_metadata}
commands ==
  [n \in {Get(get_command_metadata[i], "name").s : i \in 1..Len(get_command_metadata)} |->
     LET last == CHOOSE i \in 1..Len(get_command_metadata) :
                   /\ Get(get_command_metadata[i], "name").s = n
                   /\ \A j \in i + 1..Len(get_command_metadata) :
                         Get(get_command_metadata[j], "name").s # n
     IN [name |-> n,
         argument_schema |-> Get(get_command_metadata[last], "argument_schema").d]]

\* Both checks of start_command: catalog membership, then schema validation
RequestValid(cmd_name, cmd_args) ==
  /\ cmd_name \in DOMAIN commands
  /\ is_valid(commands[cmd_name].argument_schema, cmd_args)

\* a unit published without the before_task_publish handler: no PENDING row
NewTask_Unrecorded(name, endpoint_id, user_id, data, request_id, parent, pc) ==
  [name |-> name, endpoint_id |-> endpoint_id, user_id |-> user_id,
   validated_data |-> data, request_id |-> request_id, parent |-> parent,
   status |-> "", result |-> NoResult, task_creator |-> None,
   pc |-> pc, calls |-> 0, local |-> "", msgs |-> <<>>, pos |-> 0, stage |-> ""]

\* before_task_publish: the TaskResult row exists, PENDING, before the unit runs
NewTask(name, endpoint_id, user_id, data, request_id, parent, pc) ==
  [name |-> name, endpoint_id |-> endpoint_id, user_id |-> user_id,
   validated_data |-> data, request_id |-> request_id, parent |-> parent,
   status |-> "PENDING", result |-> NoResult, task_creator |-> None,
   pc |-> pc, calls |-> 0, local |-> "", msgs |-> <<>>, pos |-> 0, stage |-> ""]

TaskIds == 1..Len(tasks)

\* the stores and queues as the orchestrator finds them
InitOrchestrator ==
  /\ users = UserIds
  /\ endpoints = EndpointIds
  /\ tasks = <<>>
  /\ sent = <<>>
  /\ files = <<>>
  /\ credentials = <<>>
  /\ media = [i \in ArtIds |-> None]
  /\ warnings = <<>>
  /\ delivered = [msgs |-> 0, arts |-> 0]

\* no command submitted, no form requested yet
InitBoundary ==
  /\ request = NoData
  /\ response = NoOutcome
  /\ form = NoForm

\* no document given to the preprocessor
InitTransformer ==
  /\ document = <<>>
  /\ input = <<>>
  /\ returned = NoReturn
  /\ previous = NoReturn
  /\ passes = 0
  /\ uuid4 = 0

Init ==
  /\ InitOrchestrator
  /\ commands_json = CommandMetadata
  /\ InitBoundary
  /\ InitTransformer

\* ------------------------------------------------------- scheduling hand-off
\* <task>.delay(...): the before_task_publish handler stores the PENDING row
\* and the request is then published ("queued"); or the broker refuses the
\* message after the handler has stored the row, delay raises and the row stays
\* ("refused"); or the handler's store_result raises, delay raises and nothing
\* is stored or published ("unrecorded")
PublishOutcomes ==
  IF Len(tasks) < MaxTasks THEN {"queued", "refused", "unrecorded"} ELSE {"unrecorded"}

Publish(outcome, task) ==
  IF outcome = "unrecorded" THEN tasks
  ELSE Append(tasks, [task EXCEPT !.pc = outcome])

\* A unit terminated by an uncaught exception
Fail(t, exc) ==
  [tasks[t] EXCEPT !.status = "FAILURE", !.pc = "done",
                   !.result = [NoResult EXCEPT !.exc = exc]]

\* ------------------------------------------------ command-submission boundary
\* start_command without the jsonschema check of cmd_args
StartCommand_Unvalidated(e, cmd_name, cmd_args, u) ==
  /\ e \in endpoints
  /\ u \in users \cup {None}
  /\ Len(tasks) < MaxTasks
  /\ IF cmd_name \notin DOMAIN commands
     THEN UNCHANGED tasks
     ELSE \E o \in PublishOutcomes :
            tasks' = Publish(o, NewTask("execute_command", e, u,
                                [cmd_name |-> cmd_name, cmd_args |-> cmd_args],
                                None, None, "queued"))
  /\ UNCHANGED <<boundary, transformer>>
  /\ UNCHANGED <<users, endpoints, sent, files, credentials, media, warnings, delivered>>

\* views.start_command(endpoint, validated_data, user_id)
StartCommand(e, cmd_name, cmd_args, u) ==
  /\ e \in endpoints
  /\ u \in users \cup {None}
  /\ Len(tasks) < MaxTasks
  /\ IF cmd_name \notin DOMAIN commands
     THEN UNCHANGED tasks                  \* raise ValidationError({"cmd_name": ...})
     ELSE IF ~ is_valid(commands[cmd_name].argument_schema, cmd_args)
     THEN UNCHANGED tasks                  \* raise ValidationError(errors)
     ELSE \E o \in PublishOutcomes :
            tasks' = Publish(o, NewTask("execute_command", e, u,
                                [cmd_name |-> cmd_name, cmd_args |-> cmd_args],
                                None, None, "queued"))
  /\ UNCHANGED <<boundary, transformer>>
  /\ UNCHANGED <<users, endpoints, sent, files, credentials, media, warnings, delivered>>

\* EndpointViewSet.get_messages: a receive unit without correlation hint
GetMessages(e, u) ==
  /\ e \in endpoints
  /\ u \in users \cup {None}
  /\ Len(tasks) < MaxTasks
  /\ tasks' = Publish("queued", NewTask("receive_messages", e, u, NoData, None, None, "queued"))
  /\ UNCHANGED <<boundary, transformer>>
  /\ UNCHANGED <<users, endpoints, sent, files, credentials, media, warnings,
                 delivered>>

\* ------------------------------------------------- steps common to both units
\* add_user_id_to_task swallowing User.DoesNotExist
AddUserIdToTask_Suppressed(t) ==
  /\ tasks[t].pc = "queued"
  /\ tasks' = [tasks EXCEPT ![t] =
        IF tasks[t].user_id = None \/ tasks[t].user_id \notin users
        THEN [@ EXCEPT !.pc = "lookup"]
        ELSE [@ EXCEPT !.task_creator = tasks[t].user_id, !.pc = "lookup"]]
  /\ UNCHANGED <<boundary, transformer>>
  /\ UNCHANGED <<users, endpoints, sent, files, credentials, media, warnings,
                 delivered>>

\* add_user_id_to_task(user_id), the first statement of either unit
AddUserIdToTask(t) ==
  /\ tasks[t].pc = "queued"
  /\ tasks' = [tasks EXCEPT ![t] =
        IF tasks[t].user_id = None THEN [@ EXCEPT !.pc = "lookup"]
        ELSE IF tasks[t].user_id \notin users THEN Fail(t, "User.DoesNotExist")
        ELSE [@ EXCEPT !.task_creator = tasks[t].user_id, !.pc = "lookup"]]
  /\ UNCHANGED <<boundary, transformer>>
  /\ UNCHANGED <<users, endpoints, sent, files, credentials, media, warnings,
                 delivered>>

\* the unit going on without the endpoint lookup
LookupEndpoint_Unchecked(t) ==
  /\ tasks[t].pc = "lookup"
  /\ tasks' = [tasks EXCEPT ![t] =
        [@ EXCEPT !.pc = IF tasks[t].name = "execute_command" THEN "send" ELSE "receive"]]
  /\ UNCHANGED <<boundary, transformer>>
  /\ UNCHANGED <<users, endpoints, sent, files, credentials, media, warnings,
                 delivered>>

\* Endpoint.objects.get(id=endpoint_id) guarded by except Endpoint.DoesNotExist
LookupEndpoint(t) ==
  /\ tasks[t].pc = "lookup"
  /\ tasks' = [tasks EXCEPT ![t] =
        IF tasks[t].endpoint_id \notin endpoints THEN Fail(t, "RuntimeError")
        ELSE [@ EXCEPT !.pc = IF tasks[t].name = "execute_command"
                              THEN "send" ELSE "receive"]]
  /\ UNCHANGED <<boundary, transformer>>
  /\ UNCHANGED <<users, endpoints, sent, files, credentials, media, warnings,
                 delivered>>

\* ------------------------------------------------------------ dispatch unit
\* message_id from a default evaluated once instead of a default factory
DeadDropMessage_SharedId(t) ==
  [message_id |-> 1,
   user_id |-> tasks[t].user_id,
   source_id |-> None,
   destination_id |-> tasks[t].endpoint_id,
   digest |-> None,
   payload |-> [message_type |-> "CMD_REQUEST",
                cmd_name |-> tasks[t].validated_data.cmd_name,
                cmd_args |-> tasks[t].validated_data.cmd_args],
   task_id |-> t]

\* DeadDropMessage(user_id=..., payload=CommandRequestPayload(...),
\* destination_id=endpoint_id); message_id comes from the uuid4 default factory
DeadDropMessage(t) ==
  [message_id |-> Len(sent) + 1,
   user_id |-> tasks[t].user_id,
   source_id |-> None,
   destination_id |-> tasks[t].endpoint_id,
   digest |-> None,
   payload |-> [message_type |-> "CMD_REQUEST",
                cmd_name |-> tasks[t].validated_data.cmd_name,
                cmd_args |-> tasks[t].validated_data.cmd_args],
   task_id |-> t]

\* send_message called a second time after it raised once
SendMessage_Retried(t) ==
  /\ tasks[t].pc = "send"
  /\ sent' = Append(sent, DeadDropMessage(t))
  /\ \E returns \in BOOLEAN :
       tasks' = [tasks EXCEPT ![t] =
          IF returns
          THEN [@ EXCEPT !.pc = "schedule", !.calls = @ + 1, !.local = "send_result"]
          ELSE IF tasks[t].calls = 0
          THEN [@ EXCEPT !.calls = @ + 1]
          ELSE [Fail(t, "TransportError") EXCEPT !.calls = @ + 1]]
  /\ UNCHANGED <<boundary, transformer>>
  /\ UNCHANGED <<users, endpoints, files, credentials, media, warnings,
                 delivered>>

\* messaging.send_message(msg, endpoint, task_id, user): returns or raises
SendMessage(t) ==
  /\ tasks[t].pc = "send"
  /\ sent' = Append(sent, DeadDropMessage(t))
  /\ \E returns \in BOOLEAN :
       tasks' = [tasks EXCEPT ![t] =
          IF returns
          THEN [@ EXCEPT !.pc = "schedule", !.calls = @ + 1, !.local = "send_result"]
          ELSE [Fail(t, "TransportError") EXCEPT !.calls = @ + 1]]
  /\ UNCHANGED <<boundary, transformer>>
  /\ UNCHANGED <<users, endpoints, files, credentials, media, warnings,
                 delivered>>

\* message_id of the message built by dispatch unit t
MessageIdOf(t) == (CHOOSE i \in 1..Len(sent) : sent[i].task_id = t)

\* the follow-up scheduled with its arguments in the wrong order
ScheduleReceive_Swapped(t) ==
  /\ tasks[t].pc = "schedule"
  /\ \E o \in PublishOutcomes :
       LET done == IF o = "queued"
                   THEN [tasks[t] EXCEPT !.status = "SUCCESS", !.pc = "done",
                            !.result = [NoResult EXCEPT !.ret = tasks[t].local]]
                   ELSE Fail(t, "OperationalError")
           new == NewTask("receive_messages", tasks[t].user_id, tasks[t].endpoint_id,
                          NoData, sent[MessageIdOf(t)].message_id, t, "queued")
       IN tasks' = [Publish(o, new) EXCEPT ![t] = done]
  /\ UNCHANGED <<boundary, transformer>>
  /\ UNCHANGED <<users, endpoints, sent, files, credentials, media, warnings,
                 delivered>>

\* the dispatch unit returning the follow-up's handle instead of the send result
ScheduleReceive_ReturnsFollowUp(t) ==
  /\ tasks[t].pc = "schedule"
  /\ \E o \in PublishOutcomes :
       LET done == IF o = "queued"
                   THEN [tasks[t] EXCEPT !.status = "SUCCESS", !.pc = "done",
                            !.result = [NoResult EXCEPT !.ret = "async_result"]]
                   ELSE Fail(t, "OperationalError")
           new == NewTask("receive_messages", tasks[t].endpoint_id, tasks[t].user_id,
                          NoData, sent[MessageIdOf(t)].message_id, t, "queued")
       IN tasks' = [Publish(o, new) EXCEPT ![t] = done]
  /\ UNCHANGED <<boundary, transformer>>
  /\ UNCHANGED <<users, endpoints, sent, files, credentials, media, warnings,
                 delivered>>

\* receive_messages.delay(endpoint_id, user_id, msg.message_id); return result
ScheduleReceive(t) ==
  /\ tasks[t].pc = "schedule"
  /\ \E o \in PublishOutcomes :
       LET done == IF o = "queued"
                   THEN [tasks[t] EXCEPT !.status = "SUCCESS", !.pc = "done",
                            !.result = [NoResult EXCEPT !.ret = tasks[t].local]]
                   ELSE Fail(t, "OperationalError")
           new == NewTask("receive_messages", tasks[t].endpoint_id, tasks[t].user_id,
                          NoData, sent[MessageIdOf(t)].message_id, t, "queued")
       IN tasks' = [Publish(o, new) EXCEPT ![t] = done]
  /\ UNCHANGED <<boundary, transformer>>
  /\ UNCHANGED <<users, endpoints, sent, files, credentials, media, warnings,
                 delivered>>

\* ------------------------------------------------------------- receive unit
\* messaging.receive_messages(endpoint, request_id, task_id, user)
ReceiveMessages(t) ==
  /\ tasks[t].pc = "receive"
  /\ \/ \E b \in Batches(MaxMsgs - delivered.msgs, MaxArts - delivered.arts) :
          /\ tasks' = [tasks EXCEPT ![t] = [@ EXCEPT !.pc = "ingest", !.calls = @ + 1,
                                               !.msgs = b, !.pos = 1, !.stage = "build"]]
          /\ delivered' = [msgs |-> delivered.msgs + Len(b),
                            arts |-> delivered.arts + Len(Items(b))]
     \/ /\ tasks' = [tasks EXCEPT ![t] = [Fail(t, "TransportError") EXCEPT !.calls = @ + 1]]
        /\ UNCHANGED delivered
  /\ UNCHANGED <<boundary, transformer>>
  /\ UNCHANGED <<users, endpoints, sent, files, credentials, media, warnings>>

\* the artifact the loop of receive_messages is at
Current(t) == Items(tasks[t].msgs)[tasks[t].pos]

\* the rows of a table that unit t did not store
RowsNotBy(table, t) == SelectSeq(table, LAMBDA row : row.task # t)

\* the loop of receive_messages inside one transaction: an exception takes
\* back the rows the unit has stored
BuildRecord_Atomic(t) ==
  /\ tasks[t].pc = "ingest"
  /\ tasks[t].stage = "build"
  /\ tasks[t].pos <= Len(Items(tasks[t].msgs))
  /\ \/ /\ Current(t).kind = "file"
        /\ media' \in {media, [media EXCEPT ![Current(t).id] = t]}
        /\ tasks' = [tasks EXCEPT ![t] = Fail(t, "OSError")]
        /\ files' = RowsNotBy(files, t)
        /\ credentials' = RowsNotBy(credentials, t)
     \/ /\ media' = IF Current(t).kind = "file"
                    THEN [media EXCEPT ![Current(t).id] = t] ELSE media
        /\ tasks' = [tasks EXCEPT ![t] =
              IF tasks[t].endpoint_id \notin endpoints
              THEN Fail(t, "Endpoint.DoesNotExist")
              ELSE [@ EXCEPT !.stage = "save"]]
        /\ UNCHANGED <<files, credentials>>
  /\ UNCHANGED <<boundary, transformer>>
  /\ UNCHANGED <<users, endpoints, sent, warnings, delivered>>

\* File.from_deaddrop_file / Credential.from_deaddrop_credential, then
\* .task = TaskResult.objects.get(...), .source = Endpoint.objects.get(...);
\* from_deaddrop_file writes MEDIA_ROOT/files/<file_id>.bin first, and open()
\* or write() may raise OSError before or after the old content is gone
BuildRecord(t) ==
  /\ tasks[t].pc = "ingest"
  /\ tasks[t].stage = "build"
  /\ tasks[t].pos <= Len(Items(tasks[t].msgs))
  /\ \/ /\ Current(t).kind = "file"
        /\ media' \in {media, [media EXCEPT ![Current(t).id] = t]}
        /\ tasks' = [tasks EXCEPT ![t] = Fail(t, "OSError")]
     \/ /\ media' = IF Current(t).kind = "file"
                    THEN [media EXCEPT ![Current(t).id] = t] ELSE media
        /\ tasks' = [tasks EXCEPT ![t] =
              IF tasks[t].endpoint_id \notin endpoints
              THEN Fail(t, "Endpoint.DoesNotExist")
              ELSE [@ EXCEPT !.stage = "save"]]
  /\ UNCHANGED <<boundary, transformer>>
  /\ UNCHANGED <<users, endpoints, sent, files, credentials, warnings, delivered>>

\* a row that names the dispatch unit, not the receive unit, as its owner
Row_OfDispatch(t) ==
  [id |-> Current(t).id, task |-> tasks[t].parent, source |-> tasks[t].endpoint_id]

\* the row that save() writes
Row(t) == [id |-> Current(t).id, task |-> t, source |-> tasks[t].endpoint_id]

\* the store without the primary key on the artifact id
IntegrityError_NoPrimaryKey(table, row) == row.source \notin endpoints

\* INSERT into a table whose primary key is the artifact id and whose source
\* column references Endpoint: TRUE when the store raises IntegrityError
IntegrityError(table, row) ==
  \/ \E i \in 1..Len(table) : table[i].id = row.id
  \/ row.source \notin endpoints

\* save() whose IntegrityError is swallowed without a warning
SaveRecord_Silent(t) ==
  /\ tasks[t].pc = "ingest"
  /\ tasks[t].stage = "save"
  /\ LET table == IF Current(t).kind = "file" THEN files ELSE credentials
         raised == IntegrityError(table, Row(t))
         stored == IF raised THEN table ELSE Append(table, Row(t))
     IN /\ files' = IF Current(t).kind = "file" THEN stored ELSE files
        /\ credentials' = IF Current(t).kind = "credential" THEN stored ELSE credentials
  /\ tasks' = [tasks EXCEPT ![t] = [@ EXCEPT !.pos = @ + 1, !.stage = "build"]]
  /\ UNCHANGED <<boundary, transformer>>
  /\ UNCHANGED <<users, endpoints, sent, media, warnings, delivered>>

\* save() without the except IntegrityError clause
SaveRecord_Uncaught(t) ==
  /\ tasks[t].pc = "ingest"
  /\ tasks[t].stage = "save"
  /\ LET table == IF Current(t).kind = "file" THEN files ELSE credentials
         raised == IntegrityError(table, Row(t))
         stored == IF raised THEN table ELSE Append(table, Row(t))
     IN /\ files' = IF Current(t).kind = "file" THEN stored ELSE files
        /\ credentials' = IF Current(t).kind = "credential" THEN stored ELSE credentials
        /\ tasks' = [tasks EXCEPT ![t] =
              IF raised THEN Fail(t, "IntegrityError")
              ELSE [@ EXCEPT !.pos = @ + 1, !.stage = "build"]]
  /\ UNCHANGED <<boundary, transformer>>
  /\ UNCHANGED <<users, endpoints, sent, media, warnings, delivered>>

\* file.save() / cred.save() with except IntegrityError: logger.warning(...)
SaveRecord(t) ==
  /\ tasks[t].pc = "ingest"
  /\ tasks[t].stage = "save"
  /\ LET table == IF Current(t).kind = "file" THEN files ELSE credentials
         raised == IntegrityError(table, Row(t))
         stored == IF raised THEN table ELSE Append(table, Row(t))
     IN /\ files' = IF Current(t).kind = "file" THEN stored ELSE files
        /\ credentials' = IF Current(t).kind = "credential" THEN stored ELSE credentials
        /\ warnings' = IF raised
                       THEN Append(warnings, [task |-> t, kind |-> Current(t).kind,
                                              id |-> Current(t).id])
                       ELSE warnings
  /\ tasks' = [tasks EXCEPT ![t] = [@ EXCEPT !.pos = @ + 1, !.stage = "build"]]
  /\ UNCHANGED <<boundary, transformer>>
  /\ UNCHANGED <<users, endpoints, sent, media, delivered>>

\* the unit ending without returning the received messages
ReturnMessages_Nothing(t) ==
  /\ tasks[t].pc = "ingest"
  /\ tasks[t].pos > Len(Items(tasks[t].msgs))
  /\ tasks' = [tasks EXCEPT ![t] = [@ EXCEPT !.status = "SUCCESS", !.pc = "done"]]
  /\ UNCHANGED <<boundary, transformer>>
  /\ UNCHANGED <<users, endpoints, sent, files, credentials, media, warnings,
                 delivered>>

\* return json.loads(ta.dump_json(msgs))
ReturnMessages(t) ==
  /\ tasks[t].pc = "ingest"
  /\ tasks[t].pos > Len(Items(tasks[t].msgs))
  /\ tasks' = [tasks EXCEPT ![t] = [@ EXCEPT !.status = "SUCCESS", !.pc = "done",
                  !.result = [NoResult EXCEPT !.ret = "messages", !.msgs = tasks[t].msgs]]]
  /\ UNCHANGED <<boundary, transformer>>
  /\ UNCHANGED <<users, endpoints, sent, files, credentials, media, warnings,
                 delivered>>

\* ------------------------------------------------------- record deletion
\* EndpointViewSet (ModelViewSet) destroy; File.source and Credential.source
\* are on_delete=PROTECT
DestroyEndpoint(e) ==
  /\ e \in endpoints
  /\ \A i \in 1..Len(files) : files[i].source # e
  /\ \A i \in 1..Len(credentials) : credentials[i].source # e
  /\ endpoints' = endpoints \ {e}
  /\ UNCHANGED <<boundary, transformer>>
  /\ UNCHANGED <<users, tasks, sent, files, credentials, media, warnings,
                 delivered>>

\* deletion of an auth_user row; TaskResult.task_creator is on_delete=PROTECT
DeleteUser(u) ==
  /\ u \in users
  /\ \A t \in TaskIds : tasks[t].task_creator # u
  /\ users' = users \ {u}
  /\ UNCHANGED <<boundary, transformer>>
  /\ UNCHANGED <<endpoints, tasks, sent, files, credentials, media, warnings,
                 delivered>>

\* ------------------------------------------------- documents to preprocess
IntegerType == << Entry("type", Str("integer")) >>
ArrayType == << Entry("type", Str("array")), Entry("items", Dict(IntegerType)) >>

\* alternatives of an anyOf: the null marker, plain types, array types with
\* and without "items", a nested union, nodes carrying a directive
Alternatives ==
  { NullType,
    IntegerType,
    << Entry("type", Str("string")), Entry("default", Str("x")) >>,
    ArrayType,
    << Entry("type", Str("array")) >>,
    << Entry("anyOf", List(<< IntegerType, << Entry("type", Str("string")) >> >>)) >>,
    << Entry("_preprocess_create_id", Bool("true")) >>,
    << Entry("_preprocess_form_default", Bool("true")) >> }

AnyOfLists ==
  {<< NullType >>, << IntegerType, << Entry("type", Str("string")) >> >>}
    \cup {<< a, NullType >> : a \in Alternatives \ {NullType}}
    \cup {<< NullType, a >> : a \in {IntegerType, ArrayType}}

\* entries a node can carry besides nested nodes
LeafEntries ==
  {Entry("type", Str(t)) : t \in {"array", "string"}}
    \cup {Entry("items", Dict(IntegerType)), Entry("default", Str("x"))}
    \cup {Entry("anyOf", List(l)) : l \in AnyOfLists}
    \cup {Entry("_preprocess_create_id", Bool("true")),
          Entry("_preprocess_form_default", Bool("true"))}
    \cup {Entry("_preprocess_settings_val", Str(v)) :
              v \in {"AGENT_PACKAGE_DIR", "NO_SUCH_SETTING"}}

\* dicts of at most n entries drawn from `entries`, no key twice
Nodes(entries, n) ==
  {node \in UNION {[1..k -> entries] : k \in 0..n} :
      \A i, j \in 1..Len(node) : i # j => node[i].key # node[j].key}

\* documents: a node whose "items" may itself be a node with one entry or an
\* array type
Documents ==
  Nodes(LeafEntries \cup {Entry("items", Dict(node)) :
                              node \in Nodes(LeafEntries, 1) \cup {ArrayType}},
        MaxKeys)

\* ----------------------------------------------------------- preprocessor run
InitTransform ==
  /\ InitOrchestrator
  /\ commands_json = CommandMetadata
  /\ InitBoundary
  /\ document \in Documents
  /\ input = document
  /\ returned = NoReturn
  /\ previous = NoReturn
  /\ passes = 0
  /\ uuid4 = 0

\* preprocess_dict(input) on the document in memory; a later call is given
\* the dict the call before returned
PreprocessDict ==
  /\ passes < MaxPasses
  /\ returned.raised = ""
  /\ LET r == preprocess_dict(input, uuid4)
     IN /\ input' = r.input
        /\ uuid4' = r.uuid
        /\ returned' = [raised |-> r.raised,
                        doc |-> IF r.raised = "" THEN r.input ELSE <<>>,
                        of |-> IF passes = 0 THEN "document" ELSE "returned"]
  /\ previous' = returned
  /\ passes' = passes + 1
  /\ UNCHANGED <<orchestrator, boundary, document>>

\* preprocess_dict on the same document loaded again: a later call on an
\* input structurally identical to the one of the first call
PreprocessCopy ==
  /\ 0 < passes /\ passes < MaxPasses
  /\ LET r == preprocess_dict(document, uuid4)
     IN /\ input' = r.input
        /\ uuid4' = r.uuid
        /\ returned' = [raised |-> r.raised,
                        doc |-> IF r.raised = "" THEN r.input ELSE <<>>,
                        of |-> "document"]
  /\ previous' = returned
  /\ passes' = passes + 1
  /\ UNCHANGED <<orchestrator, boundary, document>>

NextTransform == PreprocessDict \/ PreprocessCopy

SpecTransform == InitTransform /\ [][NextTransform]_vars

\* -------------------------------------------- catalogs and submitted arguments
Fields == {"count", "global"}           \* argument names the catalogs declare

\* subschemas of one argument: plain types, an optional integer, an integer
\* that is also declared optional, an array
SubSchemas ==
  { IntegerType,
    << Entry("type", Str("string")) >>,
    << Entry("anyOf", List(<< IntegerType, NullType >>)) >>,
    << Entry("type", Str("integer")), Entry("anyOf", List(<< IntegerType, NullType >>)) >>,
    ArrayType }

PropertyDicts ==
  {<<>>}
    \cup {<< Entry(f, Dict(sub)) >> : f \in Fields, sub \in SubSchemas}
    \cup {<< Entry("count", Dict(s1)), Entry("global", Dict(s2)) >> :
              s1 \in SubSchemas, s2 \in {IntegerType, << Entry("type", Str("string")) >>}}

\* argument schemas: "properties" and "required" in either order, additional
\* properties allowed or not
Schemas ==
  {<< Entry("type", Str("object")) >>
     \o (IF first = "properties"
         THEN << Entry("properties", Dict(props)), Entry("required", Names(req)) >>
         ELSE << Entry("required", Names(req)), Entry("properties", Dict(props)) >>)
     \o (IF extra THEN <<>> ELSE << Entry("additionalProperties", Bool("false")) >>) :
       props \in PropertyDicts, req \in {<<>>, <<"count">>},
       first \in {"properties", "required"}, extra \in BOOLEAN}

\* commands.json files: one command, "repeat", with one of the schemas
Catalogs ==
  {<< << Entry("name", Str("repeat")), Entry("argument_schema", Dict(schema)) >> >> :
      schema \in Schemas}

ArgValues(f) ==
  {[key |-> f, type |-> "integer", repr |-> "5"],
   [key |-> f, type |-> "string", repr |-> "five"],
   [key |-> f, type |-> "null", repr |-> "None"]}

\* cmd_args given to the submission boundary: at most one value per name
SubmitArgs ==
  {a \in SUBSET (UNION {ArgValues(f) : f \in Fields}) :
      \A x, y \in a : x.key = y.key => x = y}

\* ------------------------------------------------ the submission boundary
UnknownCommand ==
  [raised |-> "ValidationError",
   errors |-> {Bucket("cmd_name", "str",
                      << [validator |-> "cmd_name",
                          value |-> "Command is not valid for this endpoint!",
                          instance |-> ""] >>)},
   task_id |-> None]

\* start_command with the catalog lookup left out: commands[cmd_name] raises
ValidationOutcome_NoLookup(cmd_name, cmd_args) ==
  IF cmd_name \notin DOMAIN commands
  THEN [raised |-> "KeyError", errors |-> {}, task_id |-> None]
  ELSE IF is_valid(commands[cmd_name].argument_schema, cmd_args) THEN NoOutcome
  ELSE LET built == BuildErrors(iter_errors(commands[cmd_name].argument_schema, cmd_args),
                                [errors |-> {Bucket("global", "list", <<>>)}, raised |-> ""], 1)
       IN IF built.raised # ""
          THEN [raised |-> built.raised, errors |-> {}, task_id |-> None]
          ELSE [raised |-> "ValidationError", errors |-> built.errors, task_id |-> None]

\* start_command up to its raise statements: what the two checks raise, with
\* the report, or nothing (NoOutcome) when the request passes both
ValidationOutcome(cmd_name, cmd_args) ==
  IF cmd_name \notin DOMAIN commands THEN UnknownCommand
  ELSE IF is_valid(commands[cmd_name].argument_schema, cmd_args) THEN NoOutcome
  ELSE LET built == BuildErrors(iter_errors(commands[cmd_name].argument_schema, cmd_args),
                                [errors |-> {Bucket("global", "list", <<>>)}, raised |-> ""], 1)
       IN IF built.raised # ""
          THEN [raised |-> built.raised, errors |-> {}, task_id |-> None]
          ELSE [raised |-> "ValidationError", errors |-> built.errors, task_id |-> None]

\* views.start_command(endpoint, validated_data, user_id) as its caller sees
\* it: the exception raised, or the id of the dispatch unit published
SubmitCommand(e, cmd_name, cmd_args, u) ==
  /\ e \in endpoints
  /\ u \in users \cup {None}
  /\ Len(tasks) < MaxSubmits
  /\ request' = [cmd_name |-> cmd_name, cmd_args |-> cmd_args]
  /\ LET checked == ValidationOutcome(cmd_name, cmd_args)
     IN IF checked.raised # ""
        THEN response' = checked /\ UNCHANGED tasks
        ELSE \E o \in PublishOutcomes :
               /\ tasks' = Publish(o, NewTask("execute_command", e, u,
                                      [cmd_name |-> cmd_name, cmd_args |-> cmd_args],
                                      None, None, "queued"))
               /\ response' = IF o = "queued"
                              THEN [NoOutcome EXCEPT !.task_id = Len(tasks) + 1]
                              ELSE [NoOutcome EXCEPT !.raised = "OperationalError"]
  /\ UNCHANGED <<users, endpoints, sent, files, credentials, media, warnings, delivered>>
  /\ UNCHANGED <<commands_json, form, transformer>>

\* the form response of get_command_metadata for the preprocessed metadata
FormResponse(r, command) ==
  LET named == {i \in 1..Len(r.input) : Get(r.input[i], "name").s = command}
  IN IF r.raised # "" THEN [raised |-> r.raised, body |-> List(<<>>)]
     ELSE IF command = "" THEN [raised |-> "", body |-> List(r.input)]
     ELSE IF named = {} THEN [raised |-> "ValidationError", body |-> List(<<>>)]
     ELSE [raised |-> "", body |-> Dict(r.input[CHOOSE i \in named : \A j \in named : j <= i])]

\* get_command_metadata preprocessing a catalog object that is kept and shared
\* between requests instead of one deserialised for this request
FormSchema_Cached(e, command) ==
  /\ e \in endpoints
  /\ LET r == preprocess_list(get_command_metadata, uuid4, 1)
     IN /\ uuid4' = r.uuid
        /\ form' = FormResponse(r, command)
        /\ commands_json' = r.input
  /\ UNCHANGED <<orchestrator, request, response, document, input, returned, previous,
                 passes>>

\* EndpointViewSet.get_command_metadata: the preprocessed metadata of all
\* commands (command = "": none named) or of the one named
FormSchema(e, command) ==
  /\ e \in endpoints
  /\ LET r == preprocess_list(get_command_metadata, uuid4, 1)
     IN /\ uuid4' = r.uuid
        /\ form' = FormResponse(r, command)
  /\ UNCHANGED <<orchestrator, commands_json, request, response>>
  /\ UNCHANGED <<document, input, returned, previous, passes>>

InitSubmit ==
  /\ InitOrchestrator
  /\ commands_json \in Catalogs
  /\ InitBoundary
  /\ InitTransformer

NextSubmit ==
  \/ \E e \in EndpointIds, n \in {"repeat", "bogus"}, a \in SubmitArgs,
          u \in UserIds \cup {None} :
       SubmitCommand(e, n, a, u)
  \/ \E e \in EndpointIds, c \in {"", "repeat", "bogus"} : FormSchema(e, c)

SpecSubmit == InitSubmit /\ [][NextSubmit]_vars

Next ==
  \/ \E e \in EndpointIds, n \in CmdNames, a \in ArgsSet, u \in UserIds \cup {None} :
       StartCommand(e, n, a, u)
  \/ \E e \in EndpointIds, u \in UserIds \cup {None} : GetMessages(e, u)
  \/ \E t \in TaskIds : AddUserIdToTask(t)
  \/ \E t \in TaskIds : LookupEndpoint(t)
  \/ \E t \in TaskIds : SendMessage(t)
  \/ \E t \in TaskIds : ScheduleReceive(t)
  \/ \E t \in TaskIds : ReceiveMessages(t)
  \/ \E t \in TaskIds : BuildRecord(t)
  \/ \E t \in TaskIds : SaveRecord(t)
  \/ \E t \in TaskIds : ReturnMessages(t)
  \/ \E e \in EndpointIds : DestroyEndpoint(e)
  \/ \E u \in UserIds : DeleteUser(u)

Spec == Init /\ [][Next]_vars


\* ================================================================ properties
IsDispatch(t) == tasks[t].name = "execute_command"
IsReceive(t) == tasks[t].name = "receive_messages"

RowsOf(table, id) == {i \in 1..Len(table) : table[i].id = id}
RowsBy(table, t) == {i \in 1..Len(table) : table[i].task = t}
SentBy(t) == {i \in 1..Len(sent) : sent[i].task_id = t}
Children(t) == {c \in TaskIds : tasks[c].parent = t}
\* the request of unit t reached the scheduler (its publish was not refused)
Scheduled(t) == tasks[t].pc # "refused"
WarningsBy(t) == {i \in 1..Len(warnings) : warnings[i].task = t}
WarningsFor(t, item) ==
  {i \in 1..Len(warnings) :
      warnings[i] = [task |-> t, kind |-> item.kind, id |-> item.id]}
TableOf(kind) == IF kind = "file" THEN files ELSE credentials
StoredBy(t, item) ==
  \E i \in 1..Len(TableOf(item.kind)) :
     TableOf(item.kind)[i].id = item.id /\ TableOf(item.kind)[i].task = t

\* unit t touched neither store, nor the media folder, nor the warning log
NoStoreWrites(t) ==
  /\ RowsBy(files, t) = {}
  /\ RowsBy(credentials, t) = {}
  /\ \A id \in ArtIds : media[id] # t
  /\ WarningsBy(t) = {}

\* the transport call of receive unit t has returned (with tasks[t].msgs)
Received(t) ==
  /\ IsReceive(t)
  /\ tasks[t].pc \in {"ingest", "done"}
  /\ tasks[t].calls = 1
  /\ tasks[t].result.exc # "TransportError"

\* ---------------------------------------------------------------------- C1
\* C1: in every reachable state, whatever the number of receive units and the
\* interleaving of their inserts, the File table holds at most one row per
\* file id and the Credential table at most one row per credential id.
C1_UniqueArtifactIds ==
  \A id \in ArtIds :
     /\ Cardinality(RowsOf(files, id)) <= 1
     /\ Cardinality(RowsOf(credentials, id)) <= 1

\* two receive units are both about to save() the same artifact id
C1_Witness ==
  \E t1, t2 \in TaskIds :
     /\ t1 # t2
     /\ tasks[t1].pc = "ingest" /\ tasks[t1].stage = "save"
     /\ tasks[t2].pc = "ingest" /\ tasks[t2].stage = "save"
     /\ Current(t1) = Current(t2)

\* ---------------------------------------------------------------------- C2
\* C2: every dispatch unit exists only for a request whose cmd_name is in the
\* catalog and whose cmd_args pass the schema, and a start_command call whose
\* request fails either check schedules nothing and sends nothing.
C2_ValidatedBeforeDispatch ==
  /\ [](\A t \in TaskIds :
          IsDispatch(t) => RequestValid(tasks[t].validated_data.cmd_name,
                                        tasks[t].validated_data.cmd_args))
  /\ [][\A e \in EndpointIds, n \in CmdNames, a \in ArgsSet, u \in UserIds \cup {None} :
          (StartCommand(e, n, a, u) /\ ~ RequestValid(n, a))
             => UNCHANGED <<tasks, sent>>]_vars

\* a dispatch unit created by start_command for a command that takes arguments
C2_Witness ==
  \E t \in TaskIds : IsDispatch(t) /\ tasks[t].validated_data.cmd_name = "repeat"

\* ---------------------------------------------------------------------- C3
\* the follow-up of dispatch unit t as execute_command schedules it
ProperFollowUp(t, c) ==
  /\ IsReceive(c)
  /\ tasks[c].endpoint_id = tasks[t].endpoint_id
  /\ tasks[c].user_id = tasks[t].user_id
  /\ SentBy(t) # {}
  /\ tasks[c].request_id = sent[MessageIdOf(t)].message_id

\* C3 as claimed: every execution of the dispatch unit in which send returned
\* has scheduled exactly one receive unit (same endpoint, same user, this
\* message's id), after the send; every other execution has scheduled none.
C3_ExactlyOneFollowUp ==
  \A t \in TaskIds : IsDispatch(t) =>
     /\ Children(t) # {} => tasks[t].local = "send_result"
     /\ tasks[t].pc = "done" =>
          IF tasks[t].local = "send_result"
          THEN /\ Cardinality(Children(t)) = 1
               /\ \A c \in Children(t) : ProperFollowUp(t, c) /\ Scheduled(c)
          ELSE Children(t) = {}

\* C3 amended: an execution in which send returned and the scheduling hand-off
\* was accepted has scheduled exactly one receive unit (same endpoint, same
\* user, this message's id), after the send; an execution in which the user
\* lookup, the endpoint lookup, the send or the hand-off failed has scheduled
\* none (of a refused hand-off at most the PENDING record stored on publish
\* remains, for a unit that never starts), and a failed hand-off ends the
\* dispatch unit in FAILURE.
C3_FollowUpUnlessRefused ==
  \A t \in TaskIds : IsDispatch(t) =>
     /\ Children(t) # {} => tasks[t].local = "send_result"
     /\ tasks[t].pc = "done" =>
          IF tasks[t].local = "send_result" /\ tasks[t].status = "SUCCESS"
          THEN /\ Cardinality(Children(t)) = 1
               /\ \A c \in Children(t) : ProperFollowUp(t, c) /\ Scheduled(c)
          ELSE /\ Cardinality(Children(t)) <= 1
               /\ \A c \in Children(t) : ~Scheduled(c) /\ tasks[c].status = "PENDING"
               /\ tasks[t].status = "FAILURE"
               /\ tasks[t].local = "send_result"
                    => tasks[t].result.exc = "OperationalError"

\* a dispatch unit has returned and its follow-up exists, for a given user
C3_Witness ==
  \E t \in TaskIds :
     /\ IsDispatch(t) /\ tasks[t].status = "SUCCESS" /\ tasks[t].user_id # None
     /\ \E c \in Children(t) : ProperFollowUp(t, c)

\* ---------------------------------------------------------------------- C4
\* C4: every message handed to the transport has no source, the request's
\* endpoint as destination, no signature, a message id no other message has,
\* and a command-request payload equal to the validated request.
C4_MessageShape ==
  \A i \in 1..Len(sent) :
     LET m == sent[i]
         t == m.task_id
     IN /\ m.source_id = None
        /\ m.destination_id = tasks[t].endpoint_id
        /\ m.digest = None
        /\ \A j \in 1..Len(sent) : j # i => sent[j].message_id # m.message_id
        /\ m.payload.message_type = "CMD_REQUEST"
        /\ m.payload.cmd_name = tasks[t].validated_data.cmd_name
        /\ m.payload.cmd_args = tasks[t].validated_data.cmd_args
        /\ RequestValid(m.payload.cmd_name, m.payload.cmd_args)

\* two dispatch units have each handed a message to the transport
C4_Witness ==
  /\ Len(sent) = 2
  /\ sent[1].payload.cmd_name # sent[2].payload.cmd_name

\* ---------------------------------------------------------------------- C5
\* number of times receive unit t was handed the artifact `item`
Occurrences(t, item) ==
  Cardinality({i \in 1..Len(Items(tasks[t].msgs)) : Items(tasks[t].msgs)[i] = item})

C6_OnlyDuplicatesRecovered ==
  \A i \in 1..Len(warnings) :
     RowsOf(TableOf(warnings[i].kind), warnings[i].id) # {}

\* ---------------------------------------------------------------------- C7
\* C7 as claimed: a receive unit that got its messages ends only after every
\* artifact was attempted, whatever happened to the artifacts before it.
C7_EveryArtifactAttempted ==
  \A t \in TaskIds :
     (Received(t) /\ tasks[t].pc = "done")
        => tasks[t].pos > Len(Items(tasks[t].msgs))

\* C7 amended: an IntegrityError on one artifact (a duplicate) never stops the
\* loop, every artifact before the current one was stored or warned about, and
\* a unit that ends before the last artifact ended in FAILURE on an error
\* other than IntegrityError, the artifacts after it never attempted.
C7_DuplicatesDoNotBlock ==
  \A t \in TaskIds : Received(t) =>
     LET items == Items(tasks[t].msgs)
     IN /\ \A i \in 1..Len(items) :
             i < tasks[t].pos => StoredBy(t, items[i]) \/ WarningsFor(t, items[i]) # {}
        /\ Cardinality(RowsBy(files, t)) + Cardinality(RowsBy(credentials, t))
             + Cardinality(WarningsBy(t)) = tasks[t].pos - 1
        /\ tasks[t].pc = "done" =>
             \/ tasks[t].status = "SUCCESS" /\ tasks[t].pos = Len(items) + 1
             \/ /\ tasks[t].status = "FAILURE"
                /\ tasks[t].result.exc \in {"Endpoint.DoesNotExist", "OSError"}
                /\ tasks[t].pos <= Len(items)

\* a unit stored an artifact, dropped its duplicate and stored a later sibling
C7_Witness ==
  \E t \in TaskIds :
     /\ Received(t)
     /\ tasks[t].status = "SUCCESS"
     /\ LET items == Items(tasks[t].msgs)
        IN /\ Len(items) = 3
           /\ items[1] = items[2]
           /\ items[3] # items[1]
           /\ StoredBy(t, items[1])
           /\ WarningsFor(t, items[2]) # {}
           /\ StoredBy(t, items[3])

\* ---------------------------------------------------------------------- C8
\* C8: a receive unit whose transport call returned no messages writes nothing
\* to the stores and ends in SUCCESS with the empty sequence as its result.
C8_EmptyReceive ==
  \A t \in TaskIds :
     (Received(t) /\ tasks[t].msgs = <<>>)
        => /\ NoStoreWrites(t)
           /\ tasks[t].pc = "done" =>
                /\ tasks[t].status = "SUCCESS"
                /\ tasks[t].result = [exc |-> "", ret |-> "messages", msgs |-> <<>>]

\* a receive unit has finished after the transport returned no messages
C8_Witness ==
  \E t \in TaskIds :
     Received(t) /\ tasks[t].msgs = <<>> /\ tasks[t].pc = "done"

\* ---------------------------------------------------------------------- C9
\* unit t has no effect beyond its own result record
NoEffects(t) ==
  /\ tasks[t].calls = 0
  /\ SentBy(t) = {}
  /\ Children(t) = {}
  /\ NoStoreWrites(t)

\* C9: a unit given a user that resolves has stamped its record with that user
\* once it is past its first statement (so before the endpoint lookup and any
\* transport call); a unit given a user that does not resolve ends in FAILURE
\* with no transport call, no store write and no receive unit scheduled.
C9_UserAttribution ==
  /\ [](\A t \in TaskIds :
          /\ (tasks[t].user_id # None /\ tasks[t].pc \notin {"queued", "refused"}
                /\ tasks[t].result.exc # "User.DoesNotExist")
               => tasks[t].task_creator = tasks[t].user_id
          /\ tasks[t].result.exc = "User.DoesNotExist"
               => /\ tasks[t].status = "FAILURE"
                  /\ tasks[t].pc = "done"
                  /\ tasks[t].task_creator = None
                  /\ NoEffects(t))
  /\ [][\A t \in TaskIds :
          (tasks[t].pc = "queued" /\ tasks'[t].pc # "queued"
             /\ tasks[t].user_id # None /\ tasks[t].user_id \notin users)
            => /\ tasks'[t].status = "FAILURE"
               /\ tasks'[t].result.exc = "User.DoesNotExist"]_vars

\* a dispatch unit and a receive unit have both failed on the user lookup
C9_Witness ==
  \E t1, t2 \in TaskIds :
     /\ IsDispatch(t1) /\ tasks[t1].result.exc = "User.DoesNotExist"
     /\ IsReceive(t2) /\ tasks[t2].result.exc = "User.DoesNotExist"

\* --------------------------------------------------------------------- C10
\* C10: a unit whose endpoint does not resolve ends in FAILURE with the lookup
\* error as result, having called no transport, stored nothing and scheduled
\* nothing; only units whose endpoint resolved get to the transport.
C10_EndpointLookup ==
  /\ [](\A t \in TaskIds :
          tasks[t].result.exc = "RuntimeError"
             => /\ tasks[t].status = "FAILURE"
                /\ tasks[t].pc = "done"
                /\ NoEffects(t))
  /\ [][\A t \in TaskIds :
          (tasks[t].pc = "lookup" /\ tasks'[t].pc # "lookup"
             /\ tasks[t].endpoint_id \notin endpoints)
            => /\ tasks'[t].status = "FAILURE"
               /\ tasks'[t].result.exc = "RuntimeError"
               /\ tasks'[t].pc = "done"]_vars

\* a dispatch unit and a receive unit have both failed on the endpoint lookup
C10_Witness ==
  \E t1, t2 \in TaskIds :
     /\ IsDispatch(t1) /\ tasks[t1].result.exc = "RuntimeError"
     /\ IsReceive(t2) /\ tasks[t2].result.exc = "RuntimeError"

\* --------------------------------------------------------------------- C11
\* C11: no unit ever calls the transport more than once (a dispatch unit hands
\* over exactly as many messages as it made send calls); a unit whose transport
\* call raised is in FAILURE, finished, after that one call and without any
\* unit scheduled by it, the step in which the call raises publishes no unit,
\* and the failed unit never calls the transport again.
C11_TransportCalledOnce ==
  /\ [](\A t \in TaskIds :
          /\ tasks[t].calls <= 1
          /\ IsDispatch(t) => Cardinality(SentBy(t)) = tasks[t].calls
          /\ tasks[t].result.exc = "TransportError"
               => /\ tasks[t].status = "FAILURE"
                  /\ tasks[t].pc = "done"
                  /\ tasks[t].calls = 1
                  /\ Children(t) = {})
  /\ [][\A t \in TaskIds :
          /\ (tasks[t].result.exc # "TransportError"
                /\ tasks'[t].result.exc = "TransportError")
               => Len(tasks') = Len(tasks)
          /\ tasks[t].result.exc = "TransportError"
               => /\ tasks'[t].calls = tasks[t].calls
                  /\ SentBy(t)' = SentBy(t)]_vars

\* a dispatch unit's send and a receive unit's receive have both raised
C11_Witness ==
  \E t1, t2 \in TaskIds :
     /\ IsDispatch(t1) /\ tasks[t1].result.exc = "TransportError"
     /\ IsReceive(t2) /\ tasks[t2].result.exc = "TransportError"

\* --------------------------------------------------------------------- C12
\* C12: a dispatch unit that ends in SUCCESS has the transport's send result
\* as its result; at the step in which it ends, the receive unit it scheduled
\* has not started (its record is PENDING); and once the dispatch unit has
\* ended, nothing the receive unit does afterwards changes its record.
C12_FireAndForget ==
  /\ [](\A t \in TaskIds :
          (IsDispatch(t) /\ tasks[t].status = "SUCCESS")
             => tasks[t].result = [exc |-> "", ret |-> "send_result", msgs |-> <<>>])
  /\ [][\A t \in TaskIds :
          /\ (IsDispatch(t) /\ tasks[t].pc = "done") => tasks'[t] = tasks[t]
          /\ (IsDispatch(t) /\ tasks[t].pc # "done" /\ tasks'[t].status = "SUCCESS")
               => /\ \E c \in 1..Len(tasks') : tasks'[c].parent = t
                  /\ \A c \in 1..Len(tasks') :
                        tasks'[c].parent = t
                           => tasks'[c].status = "PENDING" /\ tasks'[c].pc = "queued"]_vars

\* the dispatch unit is SUCCESS with the send result, its receive unit FAILURE
C12_Witness ==
  \E t \in TaskIds : \E c \in Children(t) :
     /\ IsDispatch(t) /\ tasks[t].status = "SUCCESS"
     /\ tasks[t].result.ret = "send_result"
     /\ tasks[c].status = "FAILURE"

\* --------------------------------------------------------------------- C13
\* C13 as claimed: the record is PENDING until the unit is picked up, RUNNING
\* from then until it ends, and SUCCESS or FAILURE once it has ended.
C13_RunningWhenPickedUp ==
  \A t \in TaskIds :
     /\ tasks[t].pc = "queued" => tasks[t].status = "PENDING"
     /\ tasks[t].pc \notin {"queued", "refused", "done"} => tasks[t].status = "RUNNING"
     /\ tasks[t].pc = "done" => tasks[t].status \in {"SUCCESS", "FAILURE"}

\* C13 amended: every published unit has its record from the step that
\* publishes it, PENDING and not yet started; the record stays PENDING while
\* the unit waits and while it runs (no started status is recorded), becomes
\* SUCCESS or FAILURE exactly when the unit ends, and then never changes
\* status again; no record is ever removed.
C13_PendingUntilTerminal ==
  /\ [](\A t \in TaskIds :
          /\ tasks[t].status \in {"PENDING", "SUCCESS", "FAILURE"}
          /\ tasks[t].status = "PENDING" <=> tasks[t].pc # "done")
  /\ [][/\ Len(tasks') >= Len(tasks)
        /\ \A t \in 1..Len(tasks') :
              t > Len(tasks) => /\ tasks'[t].status = "PENDING"
                                /\ tasks'[t].pc \in {"queued", "refused"}
        /\ \A t \in TaskIds :
              /\ tasks[t].status # "PENDING" => tasks'[t].status = tasks[t].status
              /\ tasks'[t].status # tasks[t].status
                   => tasks'[t].status \in {"SUCCESS", "FAILURE"}]_vars

\* one unit has been picked up and is at its transport call, another has ended
C13_Witness ==
  \E t1, t2 \in TaskIds :
     /\ tasks[t1].pc \in {"send", "receive", "ingest"} /\ tasks[t1].status = "PENDING"
     /\ tasks[t2].pc = "done" /\ tasks[t2].status = "SUCCESS"

\* alternatives of the document's "anyOf" other than {"type": "null"}
NonNull(doc) ==
  LET data == Get(doc, "anyOf").l
  IN {i \in 1..Len(data) : data[i] # NullType}

\* C19: a document with an "anyOf" that has exactly one alternative other than
\* {"type": "null"} is transformed into a document with no "anyOf" key that
\* carries every key of that alternative with the alternative's value
C19_AnyOfCollapsed ==
  (/\ passes = 1
   /\ returned.raised = ""
   /\ "anyOf" \in Keys(document)
   /\ Cardinality(NonNull(document)) = 1)
  => LET alternative == Get(document, "anyOf").l[CHOOSE i \in NonNull(document) : TRUE]
     IN /\ "anyOf" \notin Keys(returned.doc)
        /\ \A k \in Keys(alternative) :
             /\ k \in Keys(returned.doc)
             /\ Get(returned.doc, k) = Get(alternative, k)

\* C20: a document with "type": "array" is transformed without an exception
\* into a document whose "type" is "string" and that has no "items" key,
\* whether or not it carried "items" and whatever else it carries
C20_ArrayCollapsed ==
  (/\ passes = 1
   /\ "type" \in Keys(document)
   /\ Get(document, "type") = Str("array"))
  => /\ returned.raised = ""
     /\ "type" \in Keys(returned.doc)
     /\ Get(returned.doc, "type") = Str("string")
     /\ "items" \notin Keys(returned.doc)

\* C14: a submission whose cmd_name is not in the catalog fails with the
\* unknown-command error alone, whatever cmd_args holds (no bucket comes from
\* validating the arguments), and publishes no unit
C14_UnknownCommandFirst ==
  /\ []((request.cmd_name # "" /\ request.cmd_name \notin DOMAIN commands)
          => /\ response = UnknownCommand
             /\ \A b \in response.errors : b.key = "cmd_name")
  /\ [][(request'.cmd_name # "" /\ request'.cmd_name \notin DOMAIN commands)
          => tasks' = tasks]_vars

C14_Witness ==
  /\ request.cmd_name = "bogus"
  /\ request.cmd_args # {}
  /\ response.raised = "ValidationError"
  /\ tasks = <<>>

\* the errors the validator yields for the last submission, in its order
Yielded ==
  IF request.cmd_name \in DOMAIN commands
  THEN iter_errors(commands[request.cmd_name].argument_schema, request.cmd_args)
  ELSE <<>>

\* the submission was answered with an argument-errors report
Reported == Yielded # <<>> /\ response.raised = "ValidationError"

Last(path) == path[Len(path)]

RECURSIVE IsSubSeq(_, _)
\* the elements of a occur in b in the same order
IsSubSeq(a, b) ==
  IF a = <<>> THEN TRUE
  ELSE IF b = <<>> THEN FALSE
  ELSE IF Head(a) = Head(b) THEN IsSubSeq(Tail(a), Tail(b))
  ELSE IsSubSeq(a, Tail(b))

\* the messages of the yielded errors with an empty path, in order
RootMessages ==
  LET rooted == SelectSeq(Yielded, LAMBDA error : error.path = <<>>)
  IN [i \in 1..Len(rooted) |-> Message(rooted[i])]

\* C15: in an argument-errors report every error with an empty path is in the
\* "global" bucket and every other error has a bucket keyed by the last
\* segment of its path that holds a validator message for that key; args
\* {"count": "five"} against a required integer "count" give a "count" bucket
\* and an empty "global" bucket
C15_ReportBuckets ==
  Reported =>
    /\ HasBucket(response.errors, "global")
    /\ \A i \in 1..Len(RootMessages) :
         \E j \in 1..Len(BucketOf(response.errors, "global").msgs) :
            BucketOf(response.errors, "global").msgs[j] = RootMessages[i]
    /\ \A i \in 1..Len(Yielded) :
         Yielded[i].path # <<>> =>
           /\ HasBucket(response.errors, Last(Yielded[i].path))
           /\ \E j \in 1..Len(Yielded) :
                /\ Yielded[j].path # <<>>
                /\ Last(Yielded[j].path) = Last(Yielded[i].path)
                /\ BucketOf(response.errors, Last(Yielded[i].path)).msgs
                     = << Message(Yielded[j]) >>
    /\ (/\ request.cmd_args = {[key |-> "count", type |-> "string", repr |-> "five"]}
        /\ Len(Yielded) = 1
        /\ Yielded[1].path = <<"count">>)
         => /\ {b.key : b \in response.errors} = {"global", "count"}
            /\ BucketOf(response.errors, "global").msgs = <<>>

\* C16: a per-field bucket holds only the message of the last yielded error
\* whose path ends in that key, and the "global" bucket keeps every error with
\* an empty path, in the validator's order
C16_LastWriteWins ==
  Reported =>
    /\ \A i \in 1..Len(Yielded) :
         (/\ Yielded[i].path # <<>>
          /\ \A j \in (i + 1)..Len(Yielded) :
               Yielded[j].path = <<>> \/ Last(Yielded[j].path) # Last(Yielded[i].path))
           => /\ HasBucket(response.errors, Last(Yielded[i].path))
              /\ BucketOf(response.errors, Last(Yielded[i].path)).msgs
                   = << Message(Yielded[i]) >>
    /\ HasBucket(response.errors, "global")
    /\ IsSubSeq(RootMessages, BucketOf(response.errors, "global").msgs)

\* C17: every bucket of an argument-errors report, "global" and per-field
\* alike, has a sequence of strings as its value
C17_BucketsAreSequences ==
  Reported => \A b \in response.errors : b.kind = "list"

\* C18: form-schema requests never change the catalog that validation reads,
\* so every submission is answered by validating against the raw schema,
\* however the form-schema requests and the submissions interleave
C18_RawSchemaValidated ==
  /\ [][commands_json' = commands_json]_vars
  /\ [](request.cmd_name # "" =>
          LET checked == ValidationOutcome(request.cmd_name, request.cmd_args)
          IN IF checked.raised = ""
             THEN response.raised \in {"", "OperationalError"} /\ response.errors = {}
             ELSE response = checked)

\* a form schema was served whose transformed schema accepts the arguments
\* that the submission, validated against the raw schema, was refused for
C18_Witness ==
  /\ form.raised = ""
  /\ form.body.kind = "list"
  /\ Len(form.body.l) = 1
  /\ form.body.l # commands_json
  /\ request.cmd_name = "repeat"
  /\ response.raised = "ValidationError"
  /\ is_valid(Get(form.body.l[1], "argument_schema").d, request.cmd_args)

\* a key after the create_id directive, in the node's key order, writes `field`
\* again: a settings_val directive, or an "anyOf" with an alternative that
\* carries the field
WrittenAfterCreateId(doc, field) ==
  \E i \in (IndexOf(doc, "_preprocess_create_id") + 1)..Len(doc) :
     \/ doc[i].key = "_preprocess_settings_val" /\ field \in {"default", "readOnly"}
     \/ /\ doc[i].key = "anyOf"
        /\ \E j \in 1..Len(doc[i].val.l) :
              doc[i].val.l[j] # NullType /\ field \in Keys(doc[i].val.l[j])

\* the call that returned was given the document as loaded, the document
\* carries the create_id directive, and the call succeeded
CreateIdDone ==
  /\ passes >= 1
  /\ returned.of = "document"
  /\ returned.raised = ""
  /\ "_preprocess_create_id" \in Keys(document)

\* C21 as claimed: after a successful transform of a document that carries
\* _preprocess_create_id the directive key is gone, readOnly is true and
\* default is a UUID string
C21_CreateId ==
  CreateIdDone =>
    /\ "_preprocess_create_id" \notin Keys(returned.doc)
    /\ "readOnly" \in Keys(returned.doc)
    /\ Get(returned.doc, "readOnly") = Bool("true")
    /\ "default" \in Keys(returned.doc)
    /\ Get(returned.doc, "default").kind = "uuid"

\* C21 amended: the call draws a UUID; the directive key, readOnly = true and
\* default = a UUID drawn by this call are as claimed unless a key after the
\* directive in the node's key order writes them again; two calls on
\* structurally identical inputs then give different defaults
C21_CreateIdUnlessWrittenAfter ==
  CreateIdDone =>
    /\ uuid4 >= 1
    /\ ~WrittenAfterCreateId(document, "_preprocess_create_id")
         => "_preprocess_create_id" \notin Keys(returned.doc)
    /\ "readOnly" \in Keys(returned.doc)
    /\ ~WrittenAfterCreateId(document, "readOnly")
         => Get(returned.doc, "readOnly") = Bool("true")
    /\ "default" \in Keys(returned.doc)
    /\ ~WrittenAfterCreateId(document, "default")
         => /\ Get(returned.doc, "default") \in {Uuid(n) : n \in 1..uuid4}
            /\ (previous.of = "document" /\ previous.raised = "")
                 => Get(returned.doc, "default") # Get(previous.doc, "default")

C21_Witness ==
  /\ CreateIdDone
  /\ passes = 2
  /\ previous.of = "document" /\ previous.raised = ""
  /\ ~WrittenAfterCreateId(document, "default")
  /\ Get(previous.doc, "default").kind = "uuid"
  /\ Get(returned.doc, "default").kind = "uuid"

RECURSIVE Unfinished(_)
\* some node of doc, reachable through nested dicts, still has an "anyOf" key,
\* a directive key, or "type": "array" together with "items"
Unfinished(doc) ==
  \/ "anyOf" \in Keys(doc)
  \/ Keys(doc) \cap DOMAIN Directives # {}
  \/ /\ "type" \in Keys(doc) /\ Get(doc, "type") = Str("array")
     /\ "items" \in Keys(doc)
  \/ \E i \in 1..Len(doc) : doc[i].val.kind = "dict" /\ Unfinished(doc[i].val.d)

\* C30: after a successful transform no node reachable through nested dicts has
\* an "anyOf" key, a directive key, or "type": "array" together with "items",
\* also when a merged anyOf alternative brought such keys into the node
C30_NothingLeft ==
  (passes = 1 /\ returned.raised = "") => ~Unfinished(returned.doc)

\* C22: a second pass over the document that a successful transform returned
\* succeeds and returns an equal document
C22_Idempotent ==
  (returned.of = "returned" /\ previous.raised = "")
    => /\ returned.raised = ""
       /\ SameDict(returned.doc, previous.doc)

\* the directive keys whose action is not in the registry
UnknownDirectives == {k \in DOMAIN Directives : Directives[k] \notin Actions}

RECURSIVE CarriesUnknown(_, _)
\* some node of doc carries an unknown directive: doc itself, a node under a
\* dict value, or (when `lists`) an element of a list value
CarriesUnknown(doc, lists) ==
  \/ Keys(doc) \cap UnknownDirectives # {}
  \/ \E i \in 1..Len(doc) :
        \/ doc[i].val.kind = "dict" /\ CarriesUnknown(doc[i].val.d, lists)
        \/ /\ lists /\ doc[i].val.kind = "list"
           /\ \E j \in 1..Len(doc[i].val.l) : CarriesUnknown(doc[i].val.l[j], lists)

\* C23: the transform of a document in which any node carries an unknown
\* directive fails and returns no document (with the unknown-directive error,
\* unless a key visited earlier raised first)
C23_UnknownDirectiveFails ==
  (passes = 1 /\ CarriesUnknown(document, TRUE))
    => returned.raised # "" /\ returned.doc = <<>>

\* C29: validating the arguments of a known command ends in success or in an
\* argument-errors report; building the report raises nothing else, also when
\* a failing field is named "global" and errors with an empty path occur
C29_ReportNeverFails ==
  request.cmd_name \in DOMAIN commands =>
    IF Yielded = <<>> THEN response.raised \in {"", "OperationalError"}
    ELSE /\ response.raised = "ValidationError"
         /\ HasBucket(response.errors, "global")

\* the hand-off of the follow-up failed after the send of dispatch unit t
\* had returned
HandOffFailed(t) ==
  /\ IsDispatch(t)
  /\ tasks[t].local = "send_result"
  /\ tasks[t].result.exc = "OperationalError"

\* C24: when scheduling the receive unit fails after the send has returned the
\* dispatch unit ends in FAILURE, its message stays sent, and no receive unit
\* exists for that dispatch
C24_SchedulingFailure ==
  \A t \in TaskIds : HandOffFailed(t) =>
     /\ tasks[t].status = "FAILURE" /\ tasks[t].pc = "done"
     /\ Cardinality(SentBy(t)) = 1
     /\ Children(t) = {}

\* receive unit t has finished its ingestion, one way or the other
Ingested(t) == Received(t) /\ tasks[t].pc = "done"

\* C25: when the ingestion of one sequence of received messages has run to
\* success, another run over the same sequence (the unit executed again, or
\* the same response delivered to a second receive unit) also ends in SUCCESS
\* and the stores hold each artifact id of the sequence at most once (runs
\* for one endpoint, the media folder writable)
C25_IdempotentIngestion ==
  \A t1, t2 \in TaskIds :
     (/\ t1 # t2
      /\ Ingested(t1) /\ Ingested(t2)
      /\ tasks[t1].msgs = tasks[t2].msgs
      /\ tasks[t1].endpoint_id = tasks[t2].endpoint_id
      /\ tasks[t2].result.exc # "OSError"
      /\ tasks[t1].status = "SUCCESS")
       => /\ tasks[t2].status = "SUCCESS"
          /\ \A i \in 1..Len(Items(tasks[t1].msgs)) :
                LET item == Items(tasks[t1].msgs)[i]
                IN Cardinality(RowsOf(TableOf(item.kind), item.id)) <= 1

IsPrefix(a, b) == Len(a) <= Len(b) /\ SubSeq(b, 1, Len(a)) = a

\* the ids of the rows of a table that unit t stored, in insertion order
IdsStoredBy(table, t) ==
  LET mine == SelectSeq(table, LAMBDA row : row.task = t)
  IN [i \in 1..Len(mine) |-> mine[i].id]

\* the ids of the artifacts of one kind that unit t has been through, in the
\* order of its messages
IdsVisited(t, kind) ==
  LET items == Items(tasks[t].msgs)
      seen == SelectSeq([i \in 1..Len(items) |-> [at |-> i, item |-> items[i]]],
                        LAMBDA x : x.at < tasks[t].pos /\ x.item.kind = kind)
  IN [i \in 1..Len(seen) |-> seen[i].item.id]

\* C26: a receive unit goes through its artifacts one at a time in the order
\* of its messages, files before credentials within a message; each step
\* stores at most the artifact it is at, and no step, the one that ends the
\* unit in FAILURE included, takes a stored row back
C26_SequentialNoRollback ==
  /\ [](\A t \in TaskIds : Received(t) =>
          /\ IsSubSeq(IdsStoredBy(files, t), IdsVisited(t, "file"))
          /\ IsSubSeq(IdsStoredBy(credentials, t), IdsVisited(t, "credential")))
  /\ [][/\ IsPrefix(files, files')
        /\ IsPrefix(credentials, credentials')
        /\ \A t \in TaskIds :
              (tasks[t].pc = "ingest" /\ tasks'[t] # tasks[t]) =>
                 LET items == Items(tasks[t].msgs)
                     at == tasks[t].pos
                     new == [kind \in {"file", "credential"} |->
                               SubSeq(TableOf(kind)', Len(TableOf(kind)) + 1,
                                      Len(TableOf(kind)'))]
                 IN /\ tasks'[t].pos \in {at, at + 1}
                    /\ tasks'[t].msgs = tasks[t].msgs
                    /\ \A kind \in {"file", "credential"} :
                          \/ new[kind] = <<>>
                          \/ /\ at <= Len(items) /\ items[at].kind = kind
                             /\ new[kind] = << [id |-> items[at].id, task |-> t,
                                                source |-> tasks[t].endpoint_id] >>
                             /\ tasks'[t].pos = at + 1
                    /\ tasks'[t].status = "FAILURE" => new["file"] = <<>> /\ new["credential"] = <<>>]_vars

\* a unit has ended in FAILURE at an artifact after it had stored a file and
\* a credential of an earlier message, which are still stored
C26_Witness ==
  \E t \in TaskIds :
     /\ Received(t)
     /\ tasks[t].status = "FAILURE"
     /\ tasks[t].pos = 3
     /\ Len(tasks[t].msgs) = 2
     /\ RowsBy(files, t) # {}
     /\ RowsBy(credentials, t) # {}

\* the ids of one kind that the command responses among msgs carry
IdsCarried(msgs, kind) ==
  UNION {IF kind = "file"
         THEN {msgs[m].files[i] : i \in 1..Len(msgs[m].files)}
         ELSE {msgs[m].credentials[i] : i \in 1..Len(msgs[m].credentials)} :
            m \in {n \in 1..Len(msgs) : msgs[n].type = "CMD_RESPONSE"}}

\* C27: every row of the File and of the Credential table names as task a
\* receive unit whose transport call has returned, as source the endpoint
\* that unit was run for, and as id the id of an artifact of that kind in one
\* of the command responses the unit received; a unit that received no
\* command response writes nothing to the stores
C27_RecordFields ==
  /\ \A kind \in {"file", "credential"} : \A i \in 1..Len(TableOf(kind)) :
        LET row == TableOf(kind)[i]
        IN /\ row.task \in TaskIds
           /\ Received(row.task)
           /\ row.source = tasks[row.task].endpoint_id
           /\ row.id \in IdsCarried(tasks[row.task].msgs, kind)
  /\ \A t \in TaskIds :
        (Received(t) /\ \A m \in 1..Len(tasks[t].msgs) :
                           tasks[t].msgs[m].type # "CMD_RESPONSE")
        => NoStoreWrites(t)

\* a finished unit that received a log message and a command response has
\* stored a file and a credential of the response
C27_Witness ==
  \E t \in TaskIds :
     /\ Received(t)
     /\ tasks[t].status = "SUCCESS"
     /\ \E m \in 1..Len(tasks[t].msgs) : tasks[t].msgs[m].type = "LOG_MESSAGE"
     /\ RowsBy(files, t) # {}
     /\ RowsBy(credentials, t) # {}

\* C28: once a duplicate file has been dropped with a warning, the row stored
\* for its id is still owned by the unit that inserted it, with that unit's
\* endpoint as source, and the content in the media folder is still the one
\* written for that row
C28_DuplicateLeavesStored ==
  \A w \in 1..Len(warnings) :
     warnings[w].kind = "file" =>
        \A i \in RowsOf(files, warnings[w].id) :
           /\ Received(files[i].task)
           /\ files[i].source = tasks[files[i].task].endpoint_id
           /\ media[files[i].id] = files[i].task

====
